---- MODULE Spec2Model ----
(***************************************************************************)
(* A model of the publication search engine: the text processor, the       *)
(* indexer (build_index), and the query planner (SearchEngine).            *)
(*                                                                         *)
(* A Python str is a sequence of items: a word, a blank or a double quote. *)
(* A dict is a function whose DOMAIN is its key set.                       *)
(***************************************************************************)
EXTENDS Integers, Sequences, FiniteSets, TLC

\* ------------------------------------------------------------------ bounds
NumDocs == 2            \* documents in a corpus
MaxQueryWords == 2      \* words in a query given to search
MaxPhraseLen == 3       \* terms in a phrase given to the phrase matcher
MaxIntentWords == 5     \* words in a query given to weight adaptation
MaxSim == 2             \* levels of a positive cosine similarity
FewDocs == 1            \* documents in a corpus of the small engines
MaxShortWords == 1      \* words in a short query given to search
MaxTextWords == 3       \* items in a text given to process_text
NumThreads == 2         \* concurrent calls on one SearchEngine
MaxLines == 3           \* lines read by run_search_interface
NumPages == 2           \* listing URLs of the crawled site
NumPubs == 2            \* publication URLs of the crawled site
MaxItems == 1           \* list items on one listing page

\* ------------------------------------------------------------------- text
SPACE == " "
QUOTE == "dq"           \* the character "
COLON == ":"
None == <<"None">>      \* a value that is not a str

DocWords == {"risk", "Risks"}
AuthorWords == {"smith"}
QueryWords == {"risk", "bank", "smith", "By"}

\* str.lower() on one item
Lower(w) == CASE w = "Risks" -> "risks"
              [] w = "By" -> "by"
              [] w = "Quit" -> "quit"
              [] w = "Title" -> "title"
              [] OTHER -> w

\* str.isalpha() on one token: the quote and colon tokens are not alphabetic
IsAlpha(tok) == tok \notin {QUOTE, SPACE, COLON}

\* nltk stopwords.words('english'), restricted to the words of the model
STOP_WORDS == {"by", "will"}

\* PorterStemmer().stem on the words of the model: step 1a takes the final s
\* of risks and wills, steps 1b and 5a turn agreed into agree and then agre,
\* and step 5a takes the final e of agre
Stem(w) == CASE w = "risks" -> "risk"
             [] w = "wills" -> "will"
             [] w = "agreed" -> "agre"
             [] w = "agre" -> "agr"
             [] OTHER -> w

\* sklearn ENGLISH_STOP_WORDS, restricted to the words of the model
ENGLISH_STOP_WORDS == {"by", "will"}

RECURSIVE Join(_, _)
\* sep.join(parts) for a sequence of strs
Join(parts, sep) ==
  IF Len(parts) = 0 THEN <<>>
  ELSE IF Len(parts) = 1 THEN parts[1]
  ELSE parts[1] \o sep \o Join(Tail(parts), sep)

\* the str made of the words ws separated by single blanks
MkText(ws) == Join([i \in 1..Len(ws) |-> <<ws[i]>>], <<SPACE>>)

\* nltk word_tokenize: blanks separate tokens, a quote is a token of its own
word_tokenize(text) == SelectSeq(text, LAMBDA it : it # SPACE)

KeepToken(token) == IsAlpha(token) /\ token \notin STOP_WORDS

process_text(text) ==
  IF text = None THEN <<>>
  ELSE LET lowered == [i \in 1..Len(text) |-> Lower(text[i])]
           tokens == word_tokenize(lowered)
           kept == SelectSeq(tokens, KeepToken)
       IN [i \in 1..Len(kept) |-> Stem(kept[i])]

\* TfidfVectorizer(stop_words='english', lowercase=True, ngram_range=(1, 2)):
\* the analyzer's tokens (token_pattern \w\w+ drops blanks and quotes)
SkKeep(token) == token \notin {QUOTE, SPACE, COLON} /\ token \notin ENGLISH_STOP_WORDS

Analyze(text) ==
  LET lowered == [i \in 1..Len(text) |-> Lower(text[i])]
  IN SelectSeq(lowered, SkKeep)

\* the unigrams and bigrams of a token sequence
Ngrams(toks) ==
  {<<toks[i]>> : i \in 1..Len(toks)} \cup
  {<<toks[i], toks[i + 1]>> : i \in 1..(Len(toks) - 1)}

\* ---------------------------------------------------------------- corpora
Fields == {"title", "author", "abstract"}

RECURSIVE SeqsUpTo(_, _)
SeqsUpTo(S, n) ==
  IF n = 0 THEN {<<>>}
  ELSE LET shorter == SeqsUpTo(S, n - 1)
       IN shorter \cup {Append(s, x) : s \in shorter, x \in S}

Texts(words, n) == {MkText(ws) : ws \in SeqsUpTo(words, n)}

\* the titles and abstracts of the corpora: empty, or one word
FieldTexts == Texts(DocWords, 1)

AuthorLists == {<<>>} \cup {<<[name |-> MkText(<<w>>)]>> : w \in AuthorWords}

\* records that carry every key build_index reads
FullDocs ==
  {[title |-> t, authors |-> a, abstract |-> b] :
     t \in FieldTexts, a \in AuthorLists, b \in FieldTexts}

\* records of the corpus JSON that lack the 'abstract' or the 'authors' key
PartialDocs ==
  {[title |-> t, authors |-> a] : t \in FieldTexts, a \in AuthorLists}
  \cup
  {[title |-> t, abstract |-> b] : t \in FieldTexts, b \in FieldTexts}

\* --------------------------------------------------------------- indexer
EmptyDict == [x \in {} |-> x]

Put(d, k, v) == [x \in DOMAIN d \cup {k} |-> IF x = k THEN v ELSE d[x]]

\* a posting update that forgets the offset
AppendPostingAtZero(pi, token, doc, pos) ==
  LET byDoc == IF token \in DOMAIN pi THEN pi[token] ELSE EmptyDict
      plist == IF doc \in DOMAIN byDoc THEN byDoc[doc] ELSE <<>>
  IN Put(pi, token, Put(byDoc, doc, Append(plist, 0)))

\* positional_index[token][doc_id].append(pos), creating the dicts on demand
AppendPosting(pi, token, doc, pos) ==
  LET byDoc == IF token \in DOMAIN pi THEN pi[token] ELSE EmptyDict
      plist == IF doc \in DOMAIN byDoc THEN byDoc[doc] ELSE <<>>
  IN Put(pi, token, Put(byDoc, doc, Append(plist, pos)))

RECURSIVE IndexTokensDistinct(_, _, _, _)
\* an indexing loop that records only the first occurrence of a term
IndexTokensDistinct(pi, doc, tokens, k) ==
  IF k > Len(tokens) THEN pi
  ELSE IF \E j \in 1..(k - 1) : tokens[j] = tokens[k]
         THEN IndexTokensDistinct(pi, doc, tokens, k + 1)
         ELSE IndexTokensDistinct(AppendPosting(pi, tokens[k], doc, k - 1), doc, tokens, k + 1)

RECURSIVE IndexTokens(_, _, _, _)
\* for pos, token in enumerate(tokens): ...   (k is pos + 1)
IndexTokens(pi, doc, tokens, k) ==
  IF k > Len(tokens) THEN pi
  ELSE IndexTokens(AppendPosting(pi, tokens[k], doc, k - 1), doc, tokens, k + 1)

HasKeys(doc) == {"title", "authors", "abstract"} \subseteq DOMAIN doc

AuthorNames(doc) == Join([i \in 1..Len(doc.authors) |-> doc.authors[i].name], <<SPACE>>)

CombinedContent(doc) ==
  doc.title \o <<SPACE>> \o AuthorNames(doc) \o <<SPACE>> \o doc.abstract

\* TfidfVectorizer.fit: the vocabulary learned from a field corpus
FitVocabulary(corpus) == UNION {Ngrams(Analyze(corpus[i])) : i \in 1..Len(corpus)}

\* the rows of fit_transform's matrix, each row given by its non-zero columns
FitMatrix(corpus) == [i \in 1..Len(corpus) |-> Ngrams(Analyze(corpus[i]))]

\* ------------------------------------------------------------------ state
VARIABLES
  corpus_file,        \* CRAWLED_DATA_FILE: whether it exists, and its JSON array
  index_file,         \* INDEX_FILE on disk
  pc,                 \* where build_index is
  publications,       \* build_index: the records read from the corpus file
  doc_id,             \* build_index: the loop index of enumerate(publications)
  positional_index,   \* term -> doc_id -> positions
  doc_store,          \* doc_id -> record
  title_corpus, author_corpus, abstract_corpus,
  vectorizer,         \* field -> fitted vocabulary (title_vectorizer, ...)
  matrix,             \* field -> rows (title_matrix, ...)
  field_weights,      \* SearchEngine.field_weights
  query, top_k,       \* the arguments of the last call
  field,              \* the field argument of search_field_specific
  is_phrase_query, search_query, current_weights,
  phrase_tokens, matching_doc_ids,
  transform_error,    \* the fields whose transform or similarity raised ValueError
  field_scores, final_scores, results,
  outcome,            \* what the last call did
  model_file,         \* whether the classifier's MODEL_FILE exists
  process,            \* the API process: down, serving, exited, failed or stopped
  ml_models,          \* the keys of the ml_models dict of the API
  response,           \* the status of the last HTTP response, 0 before any
  endpoint,           \* the endpoint that gave the last HTTP response
  calls,              \* the concurrent calls: thread -> its locals
  repl,               \* run_search_interface: idle, running, ended, exited or failed
  repl_log,           \* the lines read from input(), each with what it invoked
  crawl_pc,           \* where crawl is
  rp,                 \* crawl: the RobotFileParser
  effective_delay_min,
  queue, visited_urls, current_url,
  attempt,            \* crawl: the attempt of the running retry loop
  publications_to_scrape,
  pub_index,          \* crawl: how many entries the phase 2 loop has taken
  final_publications,
  loads,              \* URL -> how many times the browser navigated to it
  enqueued,           \* listing URL -> how many times it was put on the queue
  fetched,            \* listing URL -> how many times it was taken off the queue
  back_links,         \* the next links met that were visited already
  given_up,           \* the entries of publications_to_scrape whose attempts all failed
  gap,                \* seconds slept since the last navigation
  last_gap            \* the seconds slept between the last two navigations

indexVars == <<corpus_file, index_file, pc, publications, doc_id, positional_index,
               doc_store, title_corpus, author_corpus, abstract_corpus, vectorizer,
               matrix>>
engineVars == <<positional_index, doc_store, vectorizer, matrix, field_weights>>
callVars == <<query, top_k, field, is_phrase_query, search_query, current_weights,
              phrase_tokens, matching_doc_ids, transform_error, field_scores,
              final_scores, results, outcome>>
apiVars == <<model_file, process, ml_models, response, endpoint>>
replVars == <<repl, repl_log>>
crawlVars == <<crawl_pc, rp, effective_delay_min, queue, visited_urls, current_url,
               attempt, publications_to_scrape, pub_index, final_publications,
               loads, enqueued, fetched, back_links, given_up, gap, last_gap>>
commandVars == <<replVars, crawlVars>>
serviceVars == <<apiVars, calls, commandVars>>
searchVars == <<field_weights, callVars, serviceVars>>
vars == <<indexVars, searchVars>>

Missing == [exists |-> FALSE, records |-> <<>>]
NotFitted == [f \in Fields |-> {}]
NoMatrix == [f \in Fields |-> <<>>]
NoWeights == [f \in Fields |-> 0]
NoField == "no field"

Threads == 1..NumThreads

\* the locals of a thread that has not called the engine
IdleCall == [pc |-> "idle", op |-> "none", query |-> <<>>, field |-> NoField,
             weights |-> NoWeights, result |-> <<>>, alone |-> <<>>]

\* run_search_interface has not been started
ReplIdle == repl = "idle" /\ repl_log = <<>>

\* URLs of the crawled site: its listing pages and its publication pages
PageUrls == {<<"page", i>> : i \in 1..NumPages}
PubUrls == {<<"pub", i>> : i \in 1..NumPubs}
SEED_URL == <<"page", 1>>
NoLink == <<"none", 0>>
NoGap == 0 - 1

\* a RobotFileParser on which parse() was never called
UnreadRobots == [read |-> FALSE, disallow |-> {}, crawl_delay |-> 0]

\* crawl has not been started
CrawlIdle ==
  /\ crawl_pc = "idle"
  /\ rp = UnreadRobots
  /\ effective_delay_min = 0
  /\ queue = <<>> /\ visited_urls = {} /\ current_url = NoLink
  /\ attempt = 0
  /\ publications_to_scrape = <<>> /\ pub_index = 0 /\ final_publications = <<>>
  /\ loads = [u \in PageUrls \cup PubUrls |-> 0]
  /\ enqueued = [u \in PageUrls |-> 0]
  /\ fetched = [u \in PageUrls |-> 0]
  /\ back_links = {}
  /\ given_up = {}
  /\ gap = 0 /\ last_gap = NoGap

\* no SearchEngine call has been made
NoCall ==
  /\ query = <<>> /\ top_k = 0 /\ field = NoField
  /\ is_phrase_query = FALSE /\ search_query = <<>>
  /\ current_weights = NoWeights
  /\ phrase_tokens = <<>> /\ matching_doc_ids = {} /\ transform_error = {}
  /\ field_scores = NoMatrix /\ final_scores = <<>> /\ results = <<>>
  /\ outcome = "none"
  /\ calls = [t \in Threads |-> IdleCall]
  /\ ReplIdle
  /\ CrawlIdle

\* the API has not been started
ServiceDown == process = "down" /\ ml_models = {} /\ response = 0 /\ endpoint = "none"

\* no SearchEngine has been constructed
SearchIdle == field_weights = NoWeights /\ NoCall /\ model_file = FALSE /\ ServiceDown

\* ------------------------------------------------------ build_index steps
\* the keys of index_data, in the order joblib.dump pickles them
ArtifactKeys == <<"positional_index", "doc_store", "title_matrix", "author_matrix",
                  "abstract_matrix", "title_vectorizer", "author_vectorizer",
                  "abstract_vectorizer">>

AbsentFile == [artifact |-> "none", written |-> 0, complete |-> FALSE]
PreviousFile == [artifact |-> "prev", written |-> Len(ArtifactKeys), complete |-> TRUE]

Corpora == SeqsUpTo(FullDocs \cup PartialDocs, NumDocs)

IndexerInit ==
  /\ corpus_file \in {Missing} \cup {[exists |-> TRUE, records |-> c] : c \in Corpora}
  /\ index_file \in {AbsentFile, PreviousFile}
  /\ pc = "start"
  /\ publications = <<>> /\ doc_id = 0
  /\ positional_index = EmptyDict /\ doc_store = EmptyDict
  /\ title_corpus = <<>> /\ author_corpus = <<>> /\ abstract_corpus = <<>>
  /\ vectorizer = NotFitted /\ matrix = NoMatrix
  /\ SearchIdle

\* with open(CRAWLED_DATA_FILE) ...: json.load, or report the missing file and return
OpenCorpus ==
  /\ pc = "start"
  /\ IF ~corpus_file.exists
       THEN pc' = "returned" /\ UNCHANGED publications
       ELSE pc' = "loop" /\ publications' = corpus_file.records
  /\ UNCHANGED <<corpus_file, index_file, doc_id, positional_index, doc_store,
                 title_corpus, author_corpus, abstract_corpus, vectorizer, matrix>>
  /\ UNCHANGED searchVars

\* one iteration of: for doc_id, doc in enumerate(publications)
IndexOneDoc ==
  /\ pc = "loop"
  /\ doc_id < Len(publications)
  /\ LET doc == publications[doc_id + 1] IN
       /\ doc_store' = Put(doc_store, doc_id, doc)
       /\ IF ~HasKeys(doc)
            THEN \* doc['authors'] or doc['abstract'] raises KeyError: nothing catches it
                 /\ pc' = "raised"
                 /\ UNCHANGED <<doc_id, positional_index, title_corpus, author_corpus,
                                abstract_corpus>>
            ELSE /\ title_corpus' = Append(title_corpus, doc.title)
                 /\ author_corpus' = Append(author_corpus, AuthorNames(doc))
                 /\ abstract_corpus' = Append(abstract_corpus, doc.abstract)
                 /\ positional_index' =
                      IndexTokens(positional_index, doc_id,
                                  process_text(CombinedContent(doc)), 1)
                 /\ doc_id' = doc_id + 1
                 /\ pc' = "loop"
  /\ UNCHANGED <<corpus_file, index_file, publications, vectorizer, matrix>>
  /\ UNCHANGED searchVars

\* the three fit_transform calls: an empty vocabulary raises ValueError
FitVectorizers ==
  /\ pc = "loop"
  /\ doc_id = Len(publications)
  /\ LET vocab == [f \in Fields |->
                     FitVocabulary(CASE f = "title" -> title_corpus
                                     [] f = "author" -> author_corpus
                                     [] f = "abstract" -> abstract_corpus)]
     IN IF \E f \in Fields : vocab[f] = {}
          THEN pc' = "raised" /\ UNCHANGED <<vectorizer, matrix>>
          ELSE /\ pc' = "dump"
               /\ vectorizer' = vocab
               /\ matrix' = [f \in Fields |->
                               FitMatrix(CASE f = "title" -> title_corpus
                                           [] f = "author" -> author_corpus
                                           [] f = "abstract" -> abstract_corpus)]
  /\ UNCHANGED <<corpus_file, index_file, publications, doc_id, positional_index,
                 doc_store, title_corpus, author_corpus, abstract_corpus>>
  /\ UNCHANGED searchVars

\* joblib.dump(index_data, INDEX_FILE) opens INDEX_FILE itself for writing
DumpOpen ==
  /\ pc = "dump"
  /\ index_file' = [artifact |-> "new", written |-> 0, complete |-> FALSE]
  /\ pc' = "writing"
  /\ UNCHANGED <<corpus_file, publications, doc_id, positional_index, doc_store,
                 title_corpus, author_corpus, abstract_corpus, vectorizer, matrix>>
  /\ UNCHANGED searchVars

\* the pickler writes the next component of index_data to the open file
DumpWrite ==
  /\ pc = "writing"
  /\ index_file.written < Len(ArtifactKeys)
  /\ index_file' = [index_file EXCEPT !.written = @ + 1]
  /\ UNCHANGED <<corpus_file, pc, publications, doc_id, positional_index, doc_store,
                 title_corpus, author_corpus, abstract_corpus, vectorizer, matrix>>
  /\ UNCHANGED searchVars

\* the with-block of joblib.dump closes the file; build_index prints and returns
DumpClose ==
  /\ pc = "writing"
  /\ index_file.written = Len(ArtifactKeys)
  /\ index_file' = [index_file EXCEPT !.complete = TRUE]
  /\ pc' = "done"
  /\ UNCHANGED <<corpus_file, publications, doc_id, positional_index, doc_store,
                 title_corpus, author_corpus, abstract_corpus, vectorizer, matrix>>
  /\ UNCHANGED searchVars

\* the process is killed, or a write fails, while build_index is running
Crash ==
  /\ pc \in {"start", "loop", "dump", "writing"}
  /\ pc' = "crashed"
  /\ UNCHANGED <<corpus_file, index_file, publications, doc_id, positional_index,
                 doc_store, title_corpus, author_corpus, abstract_corpus, vectorizer,
                 matrix>>
  /\ UNCHANGED searchVars

IndexerNext ==
  \/ OpenCorpus
  \/ IndexOneDoc
  \/ FitVectorizers
  \/ DumpOpen
  \/ DumpWrite
  \/ DumpClose
  \/ Crash

SpecIndexer == IndexerInit /\ [][IndexerNext]_vars

\* ----------------------------------------------------------- SearchEngine
\* weights are kept in tenths: 3.0 is 30 and 0.8 is 8
DefaultWeights == [title |-> 30, author |-> 20, abstract |-> 10]

Range(f) == {f[x] : x \in DOMAIN f}

RECURSIVE PositionalOf(_, _)
\* the positional index build_index holds after the first n records
PositionalOf(pubs, n) ==
  IF n = 0 THEN EmptyDict
  ELSE IndexTokens(PositionalOf(pubs, n - 1), n - 1,
                   process_text(CombinedContent(pubs[n])), 1)

FieldCorpus(pubs, f) ==
  [i \in 1..Len(pubs) |->
     CASE f = "title" -> pubs[i].title
       [] f = "author" -> AuthorNames(pubs[i])
       [] f = "abstract" -> pubs[i].abstract]

\* the corpora build_index turns into an artifact: every record has its
\* keys and no field vocabulary is empty
IndexableCorporaUpTo(n) ==
  {c \in SeqsUpTo(FullDocs, n) :
     \A f \in Fields : FitVocabulary(FieldCorpus(c, f)) # {}}

IndexableCorpora == IndexableCorporaUpTo(NumDocs)

\* the index file holds a complete artifact made from the corpus c, with the
\* matrices m; positional_index, doc_store, vectorizer and matrix are its
\* content, which SearchEngine.__init__ takes over as it is
ArtifactWith(c, m) ==
  /\ corpus_file = [exists |-> TRUE, records |-> c]
  /\ index_file = [artifact |-> "new", written |-> Len(ArtifactKeys), complete |-> TRUE]
  /\ pc = "done"
  /\ publications = c /\ doc_id = Len(c)
  /\ positional_index = PositionalOf(c, Len(c))
  /\ doc_store = [i \in 0..(Len(c) - 1) |-> c[i + 1]]
  /\ title_corpus = FieldCorpus(c, "title")
  /\ author_corpus = FieldCorpus(c, "author")
  /\ abstract_corpus = FieldCorpus(c, "abstract")
  /\ vectorizer = [f \in Fields |-> FitVocabulary(FieldCorpus(c, f))]
  /\ matrix = m

\* the artifact build_index writes for the corpus c
ArtifactOnDisk(c) == ArtifactWith(c, [f \in Fields |-> FitMatrix(FieldCorpus(c, f))])

\* SearchEngine.__init__ on the artifact build_index wrote for the corpus c
EngineLoaded(c) ==
  /\ ArtifactOnDisk(c)
  /\ field_weights = DefaultWeights

RECURSIVE PhraseLoopBreakOnAbsent(_, _, _, _)
\* a phrase loop that stops at an absent term and keeps its candidates
PhraseLoopBreakOnAbsent(pi, toks, i, candidate_docs) ==
  IF i >= Len(toks) THEN candidate_docs
  ELSE IF candidate_docs = {} THEN candidate_docs
  ELSE IF toks[i + 1] \notin DOMAIN pi THEN candidate_docs
  ELSE LET docs_with_term == pi[toks[i + 1]]
           matching_docs_for_term ==
             {d \in candidate_docs :
                /\ d \in DOMAIN docs_with_term
                /\ \E pos \in Range(pi[toks[i]][d]) :
                     (pos + 1) \in Range(docs_with_term[d])}
       IN PhraseLoopBreakOnAbsent(pi, toks, i + 1, matching_docs_for_term)

RECURSIVE PhraseLoop(_, _, _, _)
\* the loop of _find_docs_with_phrase: for i in range(1, len(phrase_tokens))
PhraseLoop(pi, toks, i, candidate_docs) ==
  IF i >= Len(toks) THEN candidate_docs
  ELSE IF candidate_docs = {} THEN candidate_docs
  ELSE IF toks[i + 1] \notin DOMAIN pi THEN {}
  ELSE LET docs_with_term == pi[toks[i + 1]]
           matching_docs_for_term ==
             {d \in candidate_docs :
                /\ d \in DOMAIN docs_with_term
                /\ \E pos \in Range(pi[toks[i]][d]) :
                     (pos + 1) \in Range(docs_with_term[d])}
       IN PhraseLoop(pi, toks, i + 1, matching_docs_for_term)

\* a phrase matcher for which the empty phrase is in every document
FindDocsEmptyPhraseEverywhere(pi, toks) ==
  IF toks = <<>> THEN UNION {DOMAIN pi[t] : t \in DOMAIN pi}
  ELSE IF toks[1] \notin DOMAIN pi THEN {}
  ELSE PhraseLoop(pi, toks, 1, DOMAIN pi[toks[1]])

_find_docs_with_phrase(pi, toks) ==
  IF toks = <<>> THEN {}
  ELSE IF toks[1] \notin DOMAIN pi THEN {}
  ELSE PhraseLoop(pi, toks, 1, DOMAIN pi[toks[1]])

\* str.startswith('"') and str.endswith('"')
StartsWithQuote(q) == Len(q) > 0 /\ q[1] = QUOTE
EndsWithQuote(q) == Len(q) > 0 /\ q[Len(q)] = QUOTE

RECURSIVE LStrip(_)
LStrip(q) == IF StartsWithQuote(q) THEN LStrip(Tail(q)) ELSE q
RECURSIVE RStrip(_)
RStrip(q) == IF EndsWithQuote(q) THEN RStrip(SubSeq(q, 1, Len(q) - 1)) ELSE q
\* str.strip('"')
StripQuotes(q) == RStrip(LStrip(q))

\* the words, after lower(), that end with "by", start with "by", start with
\* "author", are "written" at their end, or contain "researcher"
EndsWithBy == {"by"}
StartsWithBy == {"by"}
StartsWithAuthor == {"author"}
EndsWithWritten == {"written"}
HasResearcher == {"researcher"}

\* any(indicator in query.lower() for indicator in
\*     ['by ', ' author', 'written by', 'researcher'])
HasAuthorIndicator(q) ==
  LET low == [i \in 1..Len(q) |-> Lower(q[i])]
      n == Len(q)
  IN \/ \E i \in 1..(n - 1) : low[i] \in EndsWithBy /\ low[i + 1] = SPACE
     \/ \E i \in 1..(n - 1) : low[i] = SPACE /\ low[i + 1] \in StartsWithAuthor
     \/ \E i \in 1..(n - 2) :
          low[i] \in EndsWithWritten /\ low[i + 1] = SPACE /\ low[i + 2] \in StartsWithBy
     \/ \E i \in 1..n : low[i] \in HasResearcher

\* len(query.split()): the maximal runs of items that are not blanks
SplitCount(q) ==
  Cardinality({i \in 1..Len(q) : q[i] # SPACE /\ (i = 1 \/ q[i - 1] = SPACE)})

LONG_QUERY_TOKENS == 4

\* weight adaptation in which the first matching case wins
DetectIntentFirstMatch(weights0, q) ==
  IF HasAuthorIndicator(q)
    THEN [weights0 EXCEPT !.author = 40, !.title = 20]
    ELSE IF SplitCount(q) > LONG_QUERY_TOKENS \/ StartsWithQuote(q)
           THEN [weights0 EXCEPT !.title = 40, !.abstract = 8]
           ELSE weights0

_detect_query_intent(weights0, q) ==
  LET w1 == IF HasAuthorIndicator(q)
              THEN [weights0 EXCEPT !.author = 40, !.title = 20]
              ELSE weights0
  IN IF SplitCount(q) > LONG_QUERY_TOKENS \/ StartsWithQuote(q)
       THEN [w1 EXCEPT !.title = 40, !.abstract = 8]
       ELSE w1

NumDocsOf(store) == Cardinality(DOMAIN store)

ZeroScores(n) == [f \in Fields |-> [i \in 1..n |-> 0]]

\* the cosine similarity of the query and row i of the field's matrix is not
\* 0: they share an n-gram of the field's vocabulary
RowOverlaps(q, f, i) == (Ngrams(Analyze(q)) \cap vectorizer[f]) \cap matrix[f][i] # {}

\* the (field, doc_id) pairs whose cosine similarity with the query is not 0
Overlapping(q) ==
  {p \in Fields \X DOMAIN doc_store :
     p[2] < Len(matrix[p[1]]) /\ RowOverlaps(q, p[1], p[2] + 1)}

\* the distinct rows of non-zero similarity: equal rows of one matrix have
\* equal similarities with the query
OverlappingRows(q) ==
  UNION {{<<f, matrix[f][i]>> : i \in {i \in 1..Len(matrix[f]) : RowOverlaps(q, f, i)}} :
           f \in Fields}

\* the similarity vectors cosine_similarity can return for the query, one
\* entry per matrix row: a level 1..MaxSim (the similarity is level / MaxSim)
\* for each overlapping row
SimilarityChoices(q) ==
  {[f \in Fields |->
      [i \in 1..Len(matrix[f]) |->
         IF RowOverlaps(q, f, i) THEN lv[<<f, matrix[f][i]>>] ELSE 0]] :
     lv \in [OverlappingRows(q) -> 1..MaxSim]}

\* _calculate_field_scores where a failure zeroes only the failing fields
FieldScoresPerField(sims, failing, n) ==
  [f \in Fields |-> IF f \in failing THEN [i \in 1..n |-> 0] ELSE sims[f]]

\* _calculate_field_scores: one try block around the three transforms and the
\* three similarities; a ValueError anywhere replaces all three vectors
_calculate_field_scores(sims, failing, n) ==
  IF failing # {} THEN ZeroScores(n) ELSE sims

\* the numerator of weighted_score; the score is this / (MaxSim * sum(weights))
WeightedScore(w, fs, d) ==
  w.title * fs.title[d + 1] + w.author * fs.author[d + 1]
    + w.abstract * fs.abstract[d + 1]

\* list.sort(key=lambda x: x[1], reverse=True) is stable: x goes behind the
\* entries already placed whose score is not smaller
InsertByScore(sorted, x) ==
  LET ahead == Cardinality({i \in 1..Len(sorted) : sorted[i][2] >= x[2]})
  IN SubSeq(sorted, 1, ahead) \o <<x>> \o SubSeq(sorted, ahead + 1, Len(sorted))

RECURSIVE SortByScore(_)
SortByScore(pairs) ==
  IF pairs = <<>> THEN <<>>
  ELSE InsertByScore(SortByScore(SubSeq(pairs, 1, Len(pairs) - 1)), pairs[Len(pairs)])

\* the orders in which iterating a set can yield its elements
IterationOrders(S) ==
  {o \in [1..Cardinality(S) -> S] : \A i, j \in 1..Cardinality(S) : o[i] = o[j] => i = j}

\* final_scores[:top_k]
Truncate(s, k) == SubSeq(s, 1, IF k < Len(s) THEN k ELSE Len(s))

\* the Publication records; doc_id stands for the rendered doc_store fields
Render(pairs) ==
  [i \in 1..Len(pairs) |-> [doc_id |-> pairs[i][1], relevancyScore |-> pairs[i][2]]]

\* score pairs that are never filtered
ScorePairsUnfiltered(order, w, fs, positiveOnly) ==
  [i \in 1..Len(order) |-> <<order[i], WeightedScore(w, fs, order[i])>>]

\* the (doc_id, weighted_score) pairs of the docs in order, all of them or
\* only those with a positive score
ScorePairs(order, w, fs, positiveOnly) ==
  LET all == [i \in 1..Len(order) |-> <<order[i], WeightedScore(w, fs, order[i])>>]
  IN IF positiveOnly THEN SelectSeq(all, LAMBDA x : x[2] > 0) ELSE all

DEFAULT_TOP_K == 1000
TopKs == {1, DEFAULT_TOP_K}
\* the fields whose transform or similarity raises ValueError in one call
FailureChoices == {{}} \cup {{f} : f \in Fields}

MkQuery(lq, ws, rq) ==
  (IF lq THEN <<QUOTE>> ELSE <<>>) \o MkText(ws) \o (IF rq THEN <<QUOTE>> ELSE <<>>)

QueriesOver(words, n) ==
  {MkQuery(lq, ws, rq) : lq \in BOOLEAN, ws \in SeqsUpTo(words, n), rq \in BOOLEAN}

\* what SearchEngine.search(q, k) computes with the adapted weights w, over
\* the similarities sims the vectorizers and cosine_similarity give, the
\* fields failing whose computation raises ValueError, and the order in which
\* the set of matching doc_ids iterates
SearchRun(q, k, w, sims, failing, order) ==
  LET phrase == StartsWithQuote(q) /\ EndsWithQuote(q)
      sq == IF phrase THEN StripQuotes(q) ELSE q
      toks == IF phrase THEN process_text(sq) ELSE <<>>
      matching == IF phrase THEN _find_docs_with_phrase(positional_index, toks) ELSE {}
      n == NumDocsOf(doc_store)
      scored == ~(phrase /\ matching = {})
      fs == IF scored THEN _calculate_field_scores(sims, failing, n) ELSE NoMatrix
      visited == IF ~scored THEN <<>>
                 ELSE IF phrase THEN order ELSE [i \in 1..n |-> i - 1]
      \* field_scores[f][doc_id] for a doc_id the vector of f has no entry for
      indexError == \E i \in 1..Len(visited), f \in Fields : visited[i] + 1 > Len(fs[f])
      pairs == IF indexError THEN <<>> ELSE ScorePairs(visited, w, fs, ~phrase)
      sorted == SortByScore(pairs)
  IN [is_phrase_query |-> phrase,
      search_query |-> sq,
      current_weights |-> w,
      phrase_tokens |-> toks,
      matching_doc_ids |-> matching,
      transform_error |-> IF scored THEN failing ELSE {},
      field_scores |-> fs,
      final_scores |-> sorted,
      results |-> Render(Truncate(sorted, k)),
      outcome |-> IF indexError THEN "IndexError" ELSE "returned"]

\* the search_query of search(q, k): line 159
SearchQueryOf(q) == IF StartsWithQuote(q) /\ EndsWithQuote(q) THEN StripQuotes(q) ELSE q

\* SearchEngine.search(q, k) on self
SearchCall(q, k, sims, failing, order) ==
  \E r \in {SearchRun(q, k, _detect_query_intent(field_weights, SearchQueryOf(q)),
                      sims, failing, order)} :
     /\ query' = q /\ top_k' = k
     /\ field' = NoField
     /\ is_phrase_query' = r.is_phrase_query
     /\ search_query' = r.search_query
     /\ current_weights' = r.current_weights
     /\ phrase_tokens' = r.phrase_tokens
     /\ matching_doc_ids' = r.matching_doc_ids
     /\ transform_error' = r.transform_error
     /\ field_scores' = r.field_scores
     /\ final_scores' = r.final_scores
     /\ results' = r.results
     /\ outcome' = r.outcome

SearchQueries == QueriesOver(QueryWords, MaxQueryWords)

\* a call of search with a query of queries and a top_k of ks
SearchCalls(queries, ks) ==
  \E q \in queries, k \in ks :
       LET phrase == StartsWithQuote(q) /\ EndsWithQuote(q)
           sq == IF phrase THEN StripQuotes(q) ELSE q
           matching == IF phrase
                         THEN _find_docs_with_phrase(positional_index, process_text(sq))
                         ELSE {}
       IN IF phrase /\ matching = {}
            THEN SearchCall(q, k, ZeroScores(0), {}, <<>>)
            ELSE \E sims \in SimilarityChoices(sq), failing \in FailureChoices,
                    order \in IterationOrders(matching) :
                   SearchCall(q, k, sims, failing, order)

\* one call of search with a query of the given set
SearchOver(queries) ==
  /\ outcome = "none"
  /\ SearchCalls(queries, TopKs)
  /\ UNCHANGED indexVars
  /\ UNCHANGED field_weights
  /\ UNCHANGED serviceVars

Search == SearchOver(SearchQueries)

SearchInit ==
  /\ \E c \in IndexableCorpora : EngineLoaded(c)
  /\ NoCall
  /\ model_file = FALSE /\ ServiceDown

SearchNext == Search

Spec == SearchInit /\ [][SearchNext]_vars

\* --------------------------------------------------- the phrase matcher alone
\* the terms process_text can give for the words of a query
PhraseTerms == UNION {Range(process_text(<<w>>)) : w \in QueryWords}

FindPhrase ==
  /\ outcome = "none"
  /\ \E toks \in SeqsUpTo(PhraseTerms, MaxPhraseLen) :
       /\ phrase_tokens' = toks
       /\ matching_doc_ids' = _find_docs_with_phrase(positional_index, toks)
  /\ outcome' = "matched"
  /\ UNCHANGED <<query, top_k, field, is_phrase_query, search_query, current_weights,
                 transform_error, field_scores, final_scores, results>>
  /\ UNCHANGED indexVars
  /\ UNCHANGED field_weights
  /\ UNCHANGED serviceVars

SpecPhrase == SearchInit /\ [][FindPhrase]_vars

\* ------------------------------------------------- search_field_specific
ShortQueries == QueriesOver(QueryWords, MaxShortWords)

\* the field arguments: the three fields, a key of the records that is no
\* search field, and a field name in another case
FieldArgs == Fields \cup {"date", "Title"}

\* the score vectors computed although the field argument is not valid
FieldScoresUnvalidated(valid, sims, failing, n) ==
  _calculate_field_scores(sims, failing, n)

\* lines 250-253: the field is validated, then the scores are computed
FieldScoresIfValid(valid, sims, failing, n) ==
  IF valid THEN _calculate_field_scores(sims, failing, n) ELSE NoMatrix

\* [(i, scores[i]) for i in range(len(scores)) if scores[i] > 0]
DocScores(scores) ==
  SelectSeq([i \in 1..Len(scores) |-> <<i - 1, scores[i]>>], LAMBDA x : x[2] > 0)

\* what SearchEngine.search_field_specific(q, f, k) computes; a score is its
\* level / MaxSim
SearchFieldRun(q, f, k, sims, failing) ==
  LET valid == f \in Fields
      n == NumDocsOf(doc_store)
      fs == FieldScoresIfValid(valid, sims, failing, n)
      doc_scores == IF valid THEN SortByScore(DocScores(fs[f])) ELSE <<>>
  IN [transform_error |-> IF valid THEN failing ELSE {},
      field_scores |-> fs,
      final_scores |-> doc_scores,
      results |-> Render(Truncate(doc_scores, k)),
      outcome |-> IF valid THEN "field_returned" ELSE "ValueError"]

\* SearchEngine.search_field_specific(q, f, k) on self
SearchFieldCall(q, f, k, sims, failing) ==
  \E r \in {SearchFieldRun(q, f, k, sims, failing)} :
     /\ query' = q /\ top_k' = k /\ field' = f
     /\ is_phrase_query' = FALSE
     /\ search_query' = q
     /\ current_weights' = NoWeights
     /\ phrase_tokens' = <<>>
     /\ matching_doc_ids' = {}
     /\ transform_error' = r.transform_error
     /\ field_scores' = r.field_scores
     /\ final_scores' = r.final_scores
     /\ results' = r.results
     /\ outcome' = r.outcome

SearchField ==
  /\ outcome = "none"
  /\ \E q \in ShortQueries, f \in FieldArgs, k \in TopKs :
       \E sims \in SimilarityChoices(q), failing \in FailureChoices :
         SearchFieldCall(q, f, k, sims, failing)
  /\ UNCHANGED indexVars
  /\ UNCHANGED field_weights
  /\ UNCHANGED serviceVars

SpecField == SearchInit /\ [][SearchField]_vars

\* ------------------------------------------- search on an engine of few docs
FewDocsInit ==
  /\ \E c \in IndexableCorporaUpTo(FewDocs) : EngineLoaded(c)
  /\ NoCall
  /\ model_file = FALSE /\ ServiceDown

ShortSearch == SearchOver(ShortQueries)

SpecShortQueries == FewDocsInit /\ [][ShortSearch]_vars

SpecFieldFewDocs == FewDocsInit /\ [][SearchField]_vars

\* -------------------------------------------- search on bag-of-words queries
\* records whose title and abstract are empty or the same word
PlainDocs ==
  {[title |-> t, authors |-> a, abstract |-> b] :
     t \in Texts({"risk"}, 1), a \in AuthorLists, b \in Texts({"risk"}, 1)}

PlainCorpora ==
  {c \in SeqsUpTo(PlainDocs, NumDocs) :
     \A f \in Fields : FitVocabulary(FieldCorpus(c, f)) # {}}

\* the texts that do not end with a double quote: none is a phrase query
BagQueries == {MkQuery(lq, ws, FALSE) : lq \in BOOLEAN, ws \in SeqsUpTo(QueryWords, MaxShortWords)}

BagSearch == SearchOver(BagQueries)

BagInit ==
  /\ \E c \in PlainCorpora : EngineLoaded(c)
  /\ NoCall
  /\ model_file = FALSE /\ ServiceDown

SpecBagOfWords == BagInit /\ [][BagSearch]_vars

\* ------------------------------------------------ search on phrase queries
PhraseWords == {"risk", "bank", "smith"}

\* the texts "w1 ... wn" in double quotes
PhraseQueries == {MkQuery(TRUE, ws, TRUE) : ws \in SeqsUpTo(PhraseWords, MaxPhraseLen)}

PhraseSearch == SearchOver(PhraseQueries)

SpecPhraseSearch == FewDocsInit /\ [][PhraseSearch]_vars

\* --------------------------------------------------------- the HTTP service
MIN_QUERY_LENGTH == 3

\* len() of a str
CharLen(q) ==
  LET len(it) == CASE it \in {QUOTE, SPACE, COLON} -> 1
                   [] it = "By" -> 2
                   [] it \in {"risk", "bank"} -> 4
                   [] OTHER -> 5
      RECURSIVE sum(_)
      sum(t) == IF t = <<>> THEN 0 ELSE len(Head(t)) + sum(Tail(t))
  IN sum(q)

ModelKeys == {"search_engine", "classifier", "classifier_labels"}

\* an index file that was opened for writing and never completed
PartialFile == [artifact |-> "new", written |-> 0, complete |-> FALSE]

\* no artifact has been built: the index file is absent or partial
NoArtifact ==
  /\ corpus_file = Missing
  /\ index_file \in {AbsentFile, PartialFile}
  /\ pc = "start"
  /\ publications = <<>> /\ doc_id = 0
  /\ positional_index = EmptyDict /\ doc_store = EmptyDict
  /\ title_corpus = <<>> /\ author_corpus = <<>> /\ abstract_corpus = <<>>
  /\ vectorizer = NotFitted /\ matrix = NoMatrix

\* the matrices of an artifact that was not written by this build_index run
\* over this doc_store: one matrix has a row more, or (keeping a row) a row
\* less, than there are documents
TamperedMatrices(c) ==
  LET m == [f \in Fields |-> FitMatrix(FieldCorpus(c, f))]
  IN {[m EXCEPT ![f] = Append(@, @[Len(@)])] : f \in Fields}
     \cup {[m EXCEPT ![f] = SubSeq(@, 1, Len(@) - 1)] : f \in {g \in Fields : Len(m[g]) > 1}}

ServiceInit ==
  /\ \/ NoArtifact
     \/ \E c \in PlainCorpora : ArtifactOnDisk(c)
     \/ \E c \in PlainCorpora : \E m \in TamperedMatrices(c) : ArtifactWith(c, m)
  /\ field_weights = NoWeights
  /\ NoCall
  /\ model_file \in BOOLEAN
  /\ ServiceDown

\* a lifespan that goes on to its yield when the classifier did not load
AfterClassifierLoadTolerant(found) ==
  [process |-> "serving",
   ml_models |-> IF found THEN ModelKeys ELSE {"search_engine"}]

\* lifespan, lines 21-26, after ml_models["search_engine"] is set:
\* load_classifier_and_labels raises FileNotFoundError when MODEL_FILE is
\* missing, nothing catches it and the startup fails; else both keys are set
AfterClassifierLoad(found) ==
  IF found
    THEN [process |-> "serving", ml_models |-> ModelKeys]
    ELSE [process |-> "failed", ml_models |-> {"search_engine"}]

\* lifespan up to its yield: SearchEngine(), then load_classifier_and_labels()
Startup ==
  /\ process = "down"
  /\ IF index_file.artifact = "none"
       THEN \* joblib.load raises FileNotFoundError; __init__ catches it and calls exit()
            process' = "exited" /\ ml_models' = {} /\ UNCHANGED field_weights
       ELSE IF ~index_file.complete
       THEN \* joblib.load raises on the truncated pickle; nothing catches it
            process' = "failed" /\ ml_models' = {} /\ UNCHANGED field_weights
       ELSE /\ field_weights' = DefaultWeights
            /\ process' = AfterClassifierLoad(model_file).process
            /\ ml_models' = AfterClassifierLoad(model_file).ml_models
  /\ UNCHANGED <<model_file, response, endpoint, calls, commandVars>>
  /\ UNCHANGED indexVars
  /\ UNCHANGED callVars

\* GET /search?q=... (the engine is the same for every request: one request
\* is followed in a behaviour)
GetSearch ==
  /\ process = "serving"
  /\ response = 0
  /\ \E q \in ShortQueries :
       IF CharLen(q) < MIN_QUERY_LENGTH
         THEN response' = 422 /\ UNCHANGED callVars
       ELSE IF "search_engine" \notin ml_models
         THEN response' = 503 /\ UNCHANGED callVars
       ELSE /\ SearchCalls({q}, {DEFAULT_TOP_K})
            /\ response' = IF outcome' = "returned" THEN 200 ELSE 500
  /\ endpoint' = "search"
  /\ UNCHANGED <<model_file, process, ml_models, calls, commandVars>>
  /\ UNCHANGED indexVars
  /\ UNCHANGED field_weights

\* POST /classify: a body without text is refused, a missing model key gives
\* 503, and predict or predict_proba returns or raises
PostClassify ==
  /\ process = "serving"
  /\ response = 0
  /\ \E valid \in BOOLEAN, raised \in BOOLEAN :
       response' = IF ~valid THEN 422
                   ELSE IF "classifier" \notin ml_models
                           \/ "classifier_labels" \notin ml_models THEN 503
                   ELSE IF raised THEN 500
                   ELSE 200
  /\ endpoint' = "classify"
  /\ UNCHANGED <<model_file, process, ml_models, calls, commandVars>>
  /\ UNCHANGED indexVars
  /\ UNCHANGED <<field_weights, callVars>>

\* lifespan after its yield: ml_models.clear()
Shutdown ==
  /\ process = "serving"
  /\ process' = "stopped"
  /\ ml_models' = {}
  /\ UNCHANGED <<model_file, response, endpoint, calls, commandVars>>
  /\ UNCHANGED indexVars
  /\ UNCHANGED <<field_weights, callVars>>

ServiceNext ==
  \/ Startup
  \/ GetSearch
  \/ PostClassify
  \/ Shutdown

SpecService == ServiceInit /\ [][ServiceNext]_vars

\* ------------------------------------------------ weight adaptation alone
IntentWords == {"risk", "By", "author", "written", "researcher"}

\* the corpus of the end-to-end scenarios, cut to the words of the model
SampleCorpus ==
  << [title |-> <<"risk">>, authors |-> <<[name |-> <<"smith">>]>>,
      abstract |-> <<"Risks">>] >>

\* lines 157-162 of search: the query type and the adapted weights
AdaptWeights ==
  /\ outcome = "none"
  /\ \E q \in QueriesOver(IntentWords, MaxIntentWords) :
       LET phrase == StartsWithQuote(q) /\ EndsWithQuote(q)
           sq == IF phrase THEN StripQuotes(q) ELSE q
       IN /\ query' = q
          /\ is_phrase_query' = phrase
          /\ search_query' = sq
          /\ current_weights' = _detect_query_intent(field_weights, sq)
  /\ outcome' = "weighted"
  /\ UNCHANGED <<top_k, field, phrase_tokens, matching_doc_ids, transform_error,
                 field_scores, final_scores, results>>
  /\ UNCHANGED indexVars
  /\ UNCHANGED field_weights
  /\ UNCHANGED serviceVars

IntentInit == EngineLoaded(SampleCorpus) /\ NoCall /\ model_file = FALSE /\ ServiceDown

\* the API over the sample corpus: the index file is absent, partial or
\* built, and the classifier's model file exists or not
LifespanInit ==
  /\ \/ NoArtifact
     \/ ArtifactOnDisk(SampleCorpus)
  /\ field_weights = NoWeights
  /\ NoCall
  /\ model_file \in BOOLEAN
  /\ ServiceDown

SpecLifespan == LifespanInit /\ [][ServiceNext]_vars

SpecIntent == IntentInit /\ [][AdaptWeights]_vars

\* ------------------------------------------------------ process_text alone
ProcessWords == {"risk", "Risks", "By", "wills", "agreed", QUOTE}

\* process_text(x), and the ' '.join of its result
ProcessText ==
  /\ outcome = "none"
  /\ \E x \in Texts(ProcessWords, MaxTextWords) \cup {None} :
       /\ query' = x
       /\ phrase_tokens' = process_text(x)
       /\ search_query' = MkText(process_text(x))
  /\ outcome' = "processed"
  /\ UNCHANGED <<top_k, field, is_phrase_query, current_weights, matching_doc_ids,
                 transform_error, field_scores, final_scores, results>>
  /\ UNCHANGED indexVars
  /\ UNCHANGED field_weights
  /\ UNCHANGED serviceVars

SpecProcess == IntentInit /\ [][ProcessText]_vars

\* ------------------------------------------- concurrent calls on one engine
ConcurrentQueries ==
  {MkText(<<"risk">>), MkText(<<"By", "risk">>), MkText(<<"smith">>),
   MkQuery(TRUE, <<"risk">>, TRUE), MkQuery(TRUE, <<"risk">>, FALSE)}

\* self.field_weights if weights were self.field_weights itself
WeightsAliased(self_weights, adapted) == adapted

\* self.field_weights after "weights = self.field_weights.copy()" and the
\* assignments to weights: the copy took them
WeightsAfterIntent(self_weights, adapted) == self_weights

\* search, lines 157-162: thread t enters search(q) and adapts its weights
BeginSearch(t) ==
  /\ calls[t].pc = "idle"
  /\ \E q \in ConcurrentQueries :
       LET w == _detect_query_intent(field_weights, SearchQueryOf(q))
       IN /\ calls' = [calls EXCEPT ![t] = [IdleCall EXCEPT !.pc = "weighted",
                                                             !.op = "search",
                                                             !.query = q,
                                                             !.weights = w]]
          /\ field_weights' = WeightsAfterIntent(field_weights, w)
  /\ UNCHANGED indexVars
  /\ UNCHANGED callVars
  /\ UNCHANGED <<apiVars, commandVars>>

\* search, lines 164-239: thread t matches, scores, sorts and returns; alone
\* is what the call returns on an engine no other call has touched
FinishSearch(t) ==
  /\ calls[t].pc = "weighted"
  /\ LET q == calls[t].query
         sq == SearchQueryOf(q)
         phrase == StartsWithQuote(q) /\ EndsWithQuote(q)
         matching == IF phrase
                       THEN _find_docs_with_phrase(positional_index, process_text(sq))
                       ELSE {}
     IN \E sims \in SimilarityChoices(sq), failing \in FailureChoices,
           order \in IterationOrders(matching) :
          calls' = [calls EXCEPT
            ![t].pc = "done",
            ![t].result =
              SearchRun(q, DEFAULT_TOP_K, calls[t].weights, sims, failing, order).results,
            ![t].alone =
              SearchRun(q, DEFAULT_TOP_K, _detect_query_intent(DefaultWeights, sq),
                        sims, failing, order).results]
  /\ UNCHANGED field_weights
  /\ UNCHANGED indexVars
  /\ UNCHANGED callVars
  /\ UNCHANGED <<apiVars, commandVars>>

\* thread t runs search_field_specific(q, f), which reads no weights
FieldSearch(t) ==
  /\ calls[t].pc = "idle"
  /\ \E q \in ConcurrentQueries, f \in Fields :
       \E sims \in SimilarityChoices(q), failing \in FailureChoices :
         LET r == SearchFieldRun(q, f, DEFAULT_TOP_K, sims, failing).results
         IN calls' = [calls EXCEPT ![t] = [IdleCall EXCEPT !.pc = "done",
                                                            !.op = "search_field",
                                                            !.query = q,
                                                            !.field = f,
                                                            !.result = r,
                                                            !.alone = r]]
  /\ UNCHANGED field_weights
  /\ UNCHANGED indexVars
  /\ UNCHANGED callVars
  /\ UNCHANGED <<apiVars, commandVars>>

ConcurrentNext ==
  \E t \in Threads :
    \/ BeginSearch(t)
    \/ FinishSearch(t)
    \/ FieldSearch(t)

SpecConcurrent == IntentInit /\ [][ConcurrentNext]_vars

\* --------------------------------------------------- run_search_interface
EXIT_WORDS == {"exit", "quit"}
FIELD_PREFIXES == {"title", "author", "abstract"}

\* the lines input() returns: the exit words in two cases, an exit word
\* followed by a blank, the three prefixes (one with blanks around its term,
\* one with no term), a prefix in another case, a prefix that names no search
\* field, a plain query, a phrase query and the empty line
ReplLines ==
  {<<"exit">>, <<"Quit">>, <<"exit", SPACE>>,
   <<"title", COLON, "risk">>, <<"author", COLON, SPACE, "smith", SPACE>>,
   <<"abstract", COLON>>, <<"Title", COLON, "risk">>, <<"date", COLON, "risk">>,
   <<"risk">>, <<QUOTE, "risk", QUOTE>>, <<>>}

\* str.lower()
LowerText(text) == [i \in 1..Len(text) |-> Lower(text[i])]

\* an exit test that compares the line as typed
IsExitLineAsTyped(line) == Len(line) = 1 /\ line[1] \in EXIT_WORDS

\* query.lower() in ['exit', 'quit']
IsExitLine(line) == Len(line) = 1 /\ Lower(line[1]) \in EXIT_WORDS

\* query.startswith(('title:', 'author:', 'abstract:'))
HasFieldPrefix(line) ==
  Len(line) >= 2 /\ line[1] \in FIELD_PREFIXES /\ line[2] = COLON

\* str.strip(): leading and trailing blanks removed
RECURSIVE LStripBlanks(_)
LStripBlanks(t) == IF Len(t) > 0 /\ t[1] = SPACE THEN LStripBlanks(Tail(t)) ELSE t
RECURSIVE RStripBlanks(_)
RStripBlanks(t) ==
  IF Len(t) > 0 /\ t[Len(t)] = SPACE THEN RStripBlanks(SubSeq(t, 1, Len(t) - 1)) ELSE t
Strip(t) == RStripBlanks(LStripBlanks(t))

\* query.split(':', 1) of a line that starts with a field prefix: the first
\* colon is the one of the prefix
SplitField(line) == [field |-> line[1], search_term |-> SubSeq(line, 3, Len(line))]

\* what one pass of the loop does with the line it read
ReplDispatch(line) ==
  IF IsExitLine(line)
    THEN [line |-> line, op |-> "break", field |-> NoField, arg |-> <<>>]
  ELSE IF HasFieldPrefix(line)
    THEN [line |-> line, op |-> "search_field_specific",
          field |-> SplitField(line).field,
          arg |-> Strip(SplitField(line).search_term)]
  ELSE [line |-> line, op |-> "search", field |-> NoField, arg |-> line]

\* engine = SearchEngine()
StartRepl ==
  /\ repl = "idle"
  /\ IF index_file.artifact = "none"
       THEN \* __init__ catches FileNotFoundError and calls exit()
            repl' = "exited" /\ UNCHANGED field_weights
       ELSE IF ~index_file.complete
       THEN \* joblib.load raises on the truncated pickle; nothing catches it
            repl' = "failed" /\ UNCHANGED field_weights
       ELSE repl' = "running" /\ field_weights' = DefaultWeights
  /\ UNCHANGED repl_log
  /\ UNCHANGED indexVars
  /\ UNCHANGED callVars
  /\ UNCHANGED <<apiVars, calls, crawlVars>>

\* one pass of the while loop: input(), the exit test, the dispatch; an
\* exception of the engine is not caught and ends the process
ReadLine ==
  /\ repl = "running"
  /\ Len(repl_log) < MaxLines
  /\ \E line \in ReplLines :
       \E d \in {ReplDispatch(line)} :
         /\ repl_log' = Append(repl_log, d)
         /\ CASE d.op = "break" ->
                   repl' = "ended" /\ UNCHANGED callVars
              [] d.op = "search_field_specific" ->
                   /\ \E sims \in SimilarityChoices(d.arg), failing \in FailureChoices :
                        SearchFieldCall(d.arg, d.field, DEFAULT_TOP_K, sims, failing)
                   /\ repl' = IF outcome' = "field_returned" THEN "running" ELSE "failed"
              [] OTHER ->
                   /\ SearchCalls({d.arg}, {DEFAULT_TOP_K})
                   /\ repl' = IF outcome' = "returned" THEN "running" ELSE "failed"
  /\ UNCHANGED indexVars
  /\ UNCHANGED field_weights
  /\ UNCHANGED <<apiVars, calls, crawlVars>>

\* input() at the end of the input: EOFError, which nothing catches
EndOfInput ==
  /\ repl = "running"
  /\ repl' = "failed"
  /\ UNCHANGED repl_log
  /\ UNCHANGED indexVars
  /\ UNCHANGED <<field_weights, callVars>>
  /\ UNCHANGED <<apiVars, calls, crawlVars>>

ReplInit ==
  /\ \/ NoArtifact
     \/ ArtifactOnDisk(SampleCorpus)
  /\ field_weights = NoWeights
  /\ NoCall
  /\ model_file = FALSE /\ ServiceDown

ReplNext ==
  \/ StartRepl
  \/ ReadLine
  \/ EndOfInput

SpecRepl == ReplInit /\ [][ReplNext]_vars

\* ------------------------------------------------------------------ crawl
MAX_RETRIES == 3
USER_MIN_DELAY == 2
DELAY_SPREAD == 2

\* the Crawl-delay of robots.txt: none, below the floor, above the floor
CrawlDelays == {0, 1, 3}

\* the robots.txt files the site can serve: no rule but a Crawl-delay, or
\* one URL disallowed
RobotsFiles ==
  {[read |-> TRUE, disallow |-> {}, crawl_delay |-> c] : c \in CrawlDelays}
  \cup {[read |-> TRUE, disallow |-> {u}, crawl_delay |-> 0] : u \in PageUrls \cup PubUrls}

\* rp.can_fetch(USER_AGENT, url): a parser that never parsed allows nothing
can_fetch(r, url) == r.read /\ url \notin r.disallow

\* lines 84-93
EffectiveDelay(r) ==
  LET robots_delay == r.crawl_delay
  IN IF robots_delay # 0 /\ robots_delay > USER_MIN_DELAY
       THEN robots_delay
       ELSE USER_MIN_DELAY

\* random.uniform(effective_delay_min, effective_delay_min + 2.0): its ends
SleepChoices == {effective_delay_min, effective_delay_min + DELAY_SPREAD}

\* the list items of a listing page that carry a title link
PubItems == {[title |-> <<"risk">>, url |-> u, date |-> "N/A"] : u \in PubUrls}

\* what a listing page shows: its items and its nextLink
ListingPages ==
  {[items |-> it, next |-> n] :
     it \in SeqsUpTo(PubItems, MaxItems), n \in PageUrls \cup {NoLink}}

\* what a detail page shows
DetailPages ==
  {[authors |-> <<[name |-> <<"smith">>]>>, abstract |-> <<"Risks">>],
   [authors |-> <<>>, abstract |-> <<>>]}

\* a retry loop of one attempt more
HasNextAttemptOneMore(a) == a < MAX_RETRIES

\* for attempt in range(MAX_RETRIES): whether an attempt follows attempt a
HasNextAttempt(a) == a < MAX_RETRIES - 1

\* a test that enqueues every next link
LinkIsNewAlways(next_page_url, visited) == TRUE

\* line 162
LinkIsNew(next_page_url, visited) == next_page_url \notin visited

\* a give-up that keeps the record as phase 1 made it
GiveUpKeepingRecord(pub_data) == pub_data

\* lines 209-210
GiveUp(pub_data) ==
  [k \in DOMAIN pub_data \cup {"authors", "abstract"} |->
     IF k \in {"authors", "abstract"} THEN <<>> ELSE pub_data[k]]

\* lines 195-196
WithDetails(pub_data, detail) ==
  [k \in DOMAIN pub_data \cup {"authors", "abstract"} |->
     IF k = "authors" THEN detail.authors
     ELSE IF k = "abstract" THEN detail.abstract
     ELSE pub_data[k]]

Navigated == \E u \in DOMAIN loads : loads[u] > 0

\* page.goto(url): one more navigation, after the seconds slept since the last
Navigate(url) ==
  /\ loads' = [loads EXCEPT ![url] = @ + 1]
  /\ last_gap' = IF Navigated THEN gap ELSE NoGap

\* asyncio.sleep(random.uniform(...))
Sleep == \E delay \in SleepChoices : gap' = delay

buildVars == <<index_file, pc, publications, doc_id, positional_index, doc_store,
               title_corpus, author_corpus, abstract_corpus, vectorizer, matrix>>
nonCrawlVars == <<buildVars, field_weights, callVars, apiVars, calls, replVars>>

\* lines 61-104: robots.txt is fetched and parsed, or the fetch fails and the
\* parser stays unread; the delay is derived; the queue holds the seed
FetchRobots ==
  /\ crawl_pc = "idle"
  /\ \E r \in RobotsFiles \cup {UnreadRobots} :
       /\ rp' = r
       /\ effective_delay_min' = EffectiveDelay(r)
  /\ queue' = <<SEED_URL>>
  /\ visited_urls' = {SEED_URL}
  /\ enqueued' = [enqueued EXCEPT ![SEED_URL] = @ + 1]
  /\ publications_to_scrape' = <<>>
  /\ crawl_pc' = "discover"
  /\ UNCHANGED <<current_url, attempt, pub_index, final_publications, loads, fetched,
                 back_links, given_up, gap, last_gap>>
  /\ UNCHANGED corpus_file
  /\ UNCHANGED nonCrawlVars

\* lines 108-119: the next URL leaves the queue; a disallowed one is skipped
NextListing ==
  /\ crawl_pc = "discover"
  /\ queue # <<>>
  /\ current_url' = Head(queue)
  /\ queue' = Tail(queue)
  /\ fetched' = [fetched EXCEPT ![Head(queue)] = @ + 1]
  /\ attempt' = 0
  /\ crawl_pc' = IF can_fetch(rp, Head(queue)) THEN "listing" ELSE "discover"
  /\ UNCHANGED <<rp, effective_delay_min, visited_urls, publications_to_scrape,
                 pub_index, final_publications, loads, enqueued, back_links,
                 given_up, gap, last_gap>>
  /\ UNCHANGED corpus_file
  /\ UNCHANGED nonCrawlVars

\* lines 120-171: one attempt on the listing page. A success parses the page,
\* follows its next link and sleeps; a failure sleeps and retries, and the
\* last failure skips the page with "continue"
TryListingOver(pages) ==
  /\ crawl_pc = "listing"
  /\ Navigate(current_url)
  /\ \/ \E page \in pages :
          /\ publications_to_scrape' = publications_to_scrape \o page.items
          /\ IF page.next # NoLink /\ LinkIsNew(page.next, visited_urls)
               THEN /\ visited_urls' = visited_urls \cup {page.next}
                    /\ queue' = Append(queue, page.next)
                    /\ enqueued' = [enqueued EXCEPT ![page.next] = @ + 1]
                    /\ UNCHANGED back_links
               ELSE /\ back_links' = back_links \cup ({page.next} \ {NoLink})
                    /\ UNCHANGED <<visited_urls, queue, enqueued>>
          /\ Sleep
          /\ crawl_pc' = "discover"
          /\ UNCHANGED attempt
     \/ /\ IF HasNextAttempt(attempt)
              THEN Sleep /\ attempt' = attempt + 1 /\ UNCHANGED crawl_pc
              ELSE gap' = 0 /\ crawl_pc' = "discover" /\ UNCHANGED attempt
        /\ UNCHANGED <<publications_to_scrape, visited_urls, queue, enqueued,
                       back_links>>
  /\ UNCHANGED <<rp, effective_delay_min, current_url, pub_index, final_publications,
                 fetched, given_up>>
  /\ UNCHANGED corpus_file
  /\ UNCHANGED nonCrawlVars

TryListing == TryListingOver(ListingPages)

\* lines 173-178: the queue is empty and phase 2 begins
EndDiscovery ==
  /\ crawl_pc = "discover"
  /\ queue = <<>>
  /\ final_publications' = <<>>
  /\ pub_index' = 0
  /\ crawl_pc' = "details"
  /\ UNCHANGED <<rp, effective_delay_min, queue, visited_urls, current_url, attempt,
                 publications_to_scrape, loads, enqueued, fetched, back_links,
                 given_up, gap, last_gap>>
  /\ UNCHANGED corpus_file
  /\ UNCHANGED nonCrawlVars

\* lines 179-187: the next entry is taken; a disallowed one is skipped
NextDetail ==
  /\ crawl_pc = "details"
  /\ pub_index < Len(publications_to_scrape)
  /\ pub_index' = pub_index + 1
  /\ attempt' = 0
  /\ crawl_pc' = IF can_fetch(rp, publications_to_scrape[pub_index + 1].url)
                   THEN "scrape" ELSE "details"
  /\ UNCHANGED <<rp, effective_delay_min, queue, visited_urls, current_url,
                 publications_to_scrape, final_publications, loads, enqueued, fetched,
                 back_links, given_up, gap, last_gap>>
  /\ UNCHANGED corpus_file
  /\ UNCHANGED nonCrawlVars

\* lines 189-218: one attempt on the detail page of the entry. A success sets
\* authors and abstract; a failure sleeps and retries, and the last failure
\* gives up; the entry is appended and the finally block sleeps
TryDetail ==
  /\ crawl_pc = "scrape"
  /\ Navigate(publications_to_scrape[pub_index].url)
  /\ \/ \E detail \in DetailPages :
          \E pub_data \in {WithDetails(publications_to_scrape[pub_index], detail)} :
            /\ publications_to_scrape' =
                 [publications_to_scrape EXCEPT ![pub_index] = pub_data]
            /\ final_publications' = Append(final_publications, pub_data)
            /\ crawl_pc' = "details"
            /\ UNCHANGED <<attempt, given_up>>
     \/ IF HasNextAttempt(attempt)
          THEN /\ attempt' = attempt + 1
               /\ UNCHANGED <<publications_to_scrape, final_publications, crawl_pc,
                              given_up>>
          ELSE \E pub_data \in {GiveUp(publications_to_scrape[pub_index])} :
                 /\ publications_to_scrape' =
                      [publications_to_scrape EXCEPT ![pub_index] = pub_data]
                 /\ final_publications' = Append(final_publications, pub_data)
                 /\ given_up' = given_up \cup {pub_index}
                 /\ crawl_pc' = "details"
                 /\ UNCHANGED attempt
  /\ Sleep
  /\ UNCHANGED <<rp, effective_delay_min, queue, visited_urls, current_url, pub_index,
                 enqueued, fetched, back_links>>
  /\ UNCHANGED corpus_file
  /\ UNCHANGED nonCrawlVars

\* lines 220-225: the loop is over and the records are written
SaveCrawl ==
  /\ crawl_pc = "details"
  /\ pub_index = Len(publications_to_scrape)
  /\ corpus_file' = [exists |-> TRUE, records |-> final_publications]
  /\ crawl_pc' = "saved"
  /\ UNCHANGED <<rp, effective_delay_min, queue, visited_urls, current_url, attempt,
                 publications_to_scrape, pub_index, final_publications, loads,
                 enqueued, fetched, back_links, given_up, gap, last_gap>>
  /\ UNCHANGED nonCrawlVars

CrawlInit ==
  /\ NoArtifact
  /\ index_file = AbsentFile
  /\ SearchIdle

CrawlNext ==
  \/ FetchRobots
  \/ NextListing
  \/ TryListing
  \/ EndDiscovery
  \/ NextDetail
  \/ TryDetail
  \/ SaveCrawl

SpecCrawl == CrawlInit /\ [][CrawlNext]_vars

\* the listing pages of a site that lists one publication only: the items
\* of a page fill publications_to_scrape and steer nothing in phase 1
OnePubPages ==
  {page \in ListingPages :
     \A i \in 1..Len(page.items) : page.items[i].url = <<"pub", 1>>}

TryListingOnePub == TryListingOver(OnePubPages)

\* phase 1 alone
DiscoveryNext ==
  \/ FetchRobots
  \/ NextListing
  \/ TryListingOnePub
  \/ EndDiscovery

\* every step of crawl ends, a navigation and a wait by their timeouts, so the
\* crawler always takes its next step
SpecDiscovery == CrawlInit /\ [][DiscoveryNext]_vars /\ WF_vars(DiscoveryNext)

\* ------------------------------------------------ claims on SearchEngine
\* the processed token stream of a document of the doc store
DocTokens(d) == process_text(CombinedContent(doc_store[d]))

\* p is a contiguous, in-order sub-sequence of tokens
ContainsPhrase(tokens, p) ==
  \E start \in 0..(Len(tokens) - Len(p)) :
    \A k \in 1..Len(p) : tokens[start + k] = p[k]

\* C1: for a phrase of one term or more the phrase matcher returns exactly
\* the doc_ids whose token stream contains the phrase as a contiguous,
\* in-order sub-sequence.
C1_ExactPhraseMatch ==
  (outcome = "matched" /\ Len(phrase_tokens) >= 1) =>
    matching_doc_ids =
      {d \in DOMAIN doc_store : ContainsPhrase(DocTokens(d), phrase_tokens)}

\* C2: the list search returns is ordered by non-increasing score, and two
\* results with equal score appear in ascending doc_id order.
C2_ScoreThenDocIdOrder ==
  outcome = "returned" =>
    \A i \in 1..(Len(results) - 1) :
      \/ results[i].relevancyScore > results[i + 1].relevancyScore
      \/ /\ results[i].relevancyScore = results[i + 1].relevancyScore
         /\ results[i].doc_id < results[i + 1].doc_id

AuthorWeights == [title |-> 20, author |-> 40, abstract |-> 10]
TitleWeights == [title |-> 40, author |-> 20, abstract |-> 8]

\* C3 as claimed: a query text with an author indicator always gets the
\* weights (2.0, 4.0, 1.0), the first matching case winning.
C3_FirstMatchWins ==
  (outcome = "weighted" /\ HasAuthorIndicator(search_query)) =>
    current_weights = AuthorWeights

\* C3 as amended: both cases are evaluated and both apply. A text with an
\* author indicator gets author 4.0; its title is 2.0 and its abstract 1.0
\* unless it has more than 4 tokens or begins with a quote, and then its
\* title is 4.0 and its abstract 0.8.
C3_BothCasesApply ==
  (outcome = "weighted" /\ HasAuthorIndicator(search_query)) =>
    current_weights =
      IF SplitCount(search_query) > LONG_QUERY_TOKENS \/ StartsWithQuote(search_query)
        THEN [title |-> 40, author |-> 40, abstract |-> 8]
        ELSE AuthorWeights

\* a query with an author indicator and more than 4 tokens has been weighted,
\* and so has one with an author indicator and 4 tokens or fewer
C3_Witness ==
  /\ outcome = "weighted"
  /\ HasAuthorIndicator(search_query)
  /\ SplitCount(search_query) > LONG_QUERY_TOKENS
  /\ ~StartsWithQuote(search_query)

\* C4: every phrase query whose text has no author indicator is scored with
\* the weights (4.0, 2.0, 0.8), whatever its token count.
C4_PhraseGetsTitleWeights ==
  (outcome = "weighted" /\ is_phrase_query /\ ~HasAuthorIndicator(query)) =>
    current_weights = TitleWeights

\* what the bag-of-words query for the text of the last call returns when it
\* is restricted to the documents in keep
BagOfWordsResults(keep) ==
  LET n == NumDocsOf(doc_store)
      w == _detect_query_intent(field_weights, search_query)
      pairs == ScorePairs([i \in 1..n |-> i - 1], w, field_scores, TRUE)
      kept == SelectSeq(pairs, LAMBDA x : x[1] \in keep)
  IN Render(Truncate(SortByScore(kept), top_k))

\* C5: a phrase query of one term t returns what the bag-of-words query for
\* its text returns, restricted to the documents with postings for t: the
\* same documents, in the same order, with the same scores.
C5_OneTermPhraseAsBagOfWords ==
  (outcome = "returned" /\ is_phrase_query /\ Len(phrase_tokens) = 1) =>
    results = BagOfWordsResults(
                IF phrase_tokens[1] \in DOMAIN positional_index
                  THEN DOMAIN positional_index[phrase_tokens[1]] ELSE {})

Scored == outcome = "returned" /\ ~(is_phrase_query /\ matching_doc_ids = {})

Get(d, k, default) == IF k \in DOMAIN d THEN d[k] ELSE default

\* the record with the corpus JSON defaults for its missing keys
WithDefaults(doc) ==
  [title |-> doc.title, authors |-> Get(doc, "authors", <<>>),
   abstract |-> Get(doc, "abstract", <<>>)]

\* C7: the file at the index path is always absent, the previous complete
\* artifact or the complete new artifact, never a partially written one.
C7_AtomicPersistence ==
  index_file.artifact = "none" \/ index_file.complete

\* C8: a document whose processing raises is skipped and indexing goes on: the
\* loop never ends the run with an exception, and the finished run holds the
\* surviving documents, in order, under the dense doc_ids 0..S-1.
C8_SkipFailingDocument ==
  /\ pc = "raised" => doc_id = Len(publications)
  /\ pc = "done" =>
       LET surviving == SelectSeq(publications, HasKeys)
       IN /\ DOMAIN doc_store = 0..(Len(surviving) - 1)
          /\ \A i \in DOMAIN doc_store : doc_store[i] = surviving[i + 1]
          /\ index_file.artifact = "new"

\* C9: every record the loop has taken, also one without 'abstract' or
\* 'authors', has its doc_id in the doc store and its field texts, with ""
\* and [] for the missing keys, in the field corpora.
C9_MissingKeysDefaulted ==
  \A i \in DOMAIN doc_store :
    /\ i < Len(abstract_corpus)
    /\ abstract_corpus[i + 1] = WithDefaults(doc_store[i]).abstract
    /\ author_corpus[i + 1] = AuthorNames(WithDefaults(doc_store[i]))

StrictlyIncreasing(s) == \A i \in 1..(Len(s) - 1) : s[i] < s[i + 1]

\* C10: for every term and every doc_id under it in the positional index the
\* position list is non-empty and strictly increasing.
C10_PositionsIncreasing ==
  \A t \in DOMAIN positional_index :
    \A d \in DOMAIN positional_index[t] :
      /\ Len(positional_index[t][d]) > 0
      /\ StrictlyIncreasing(positional_index[t][d])

\* build_index finished over a corpus in which a term occurs twice in a document
C10_Witness ==
  /\ pc = "done"
  /\ \E t \in DOMAIN positional_index :
       \E d \in DOMAIN positional_index[t] : Len(positional_index[t][d]) >= 2

\* the offsets stored for document d under term t
OffsetsOf(t, d) ==
  IF t \in DOMAIN positional_index /\ d \in DOMAIN positional_index[t]
    THEN Range(positional_index[t][d]) ELSE {}

\* C11: for every document the loop has indexed, the offsets stored under a
\* term are exactly the offsets of its token stream that hold this term, so
\* the lists of the document partition [0, L) and the document is under a
\* term iff the term occurs in it; no other doc_id is in the index.
C11_PositionsPartitionStream ==
  /\ \A d \in 0..(doc_id - 1) :
       LET tokens == DocTokens(d)
       IN /\ \A t \in DOMAIN positional_index \cup Range(tokens) :
               /\ OffsetsOf(t, d) = {k \in 0..(Len(tokens) - 1) : tokens[k + 1] = t}
               /\ (t \in DOMAIN positional_index /\ d \in DOMAIN positional_index[t])
                    <=> t \in Range(tokens)
               /\ Len(Get(Get(positional_index, t, EmptyDict), d, <<>>))
                    = Cardinality(OffsetsOf(t, d))
  /\ \A t \in DOMAIN positional_index : DOMAIN positional_index[t] \subseteq 0..(doc_id - 1)

\* build_index finished over a corpus with a document of three tokens, two of
\* them the same term
C11_Witness ==
  /\ pc = "done"
  /\ \E d \in DOMAIN doc_store :
       /\ Len(DocTokens(d)) = 3
       /\ Cardinality(Range(DocTokens(d))) = 2

\* C12: a phrase query with a processed term that is not in the positional
\* index, at whatever index of the phrase, returns the empty list.
C12_AbsentTermEmptyResult ==
  (outcome = "returned" /\ is_phrase_query
     /\ \E i \in 1..Len(phrase_tokens) : phrase_tokens[i] \notin DOMAIN positional_index)
    => (matching_doc_ids = {} /\ results = <<>>)

\* the phrase of a call has three terms, the middle one absent from the index
\* between two terms that have postings
C12_Witness ==
  /\ outcome = "returned" /\ is_phrase_query
  /\ Len(phrase_tokens) = 3
  /\ phrase_tokens[1] \in DOMAIN positional_index
  /\ phrase_tokens[2] \notin DOMAIN positional_index
  /\ phrase_tokens[3] \in DOMAIN positional_index

\* C13: a query that is empty once its surrounding quotes are trimmed, and a
\* phrase query whose processed token list is empty, return the empty list;
\* the call returns, it does not raise.
C13_EmptyQueryEmptyResult ==
  (outcome # "none"
     /\ (StripQuotes(query) = <<>> \/ (is_phrase_query /\ process_text(search_query) = <<>>)))
    => (outcome = "returned" /\ results = <<>>)

\* search has been called with a phrase of stopwords only, which is not empty
\* but whose processed token list is
C13_Witness ==
  /\ outcome = "returned"
  /\ is_phrase_query /\ search_query # <<>> /\ phrase_tokens = <<>>

\* C14: search_field_specific raises ValueError exactly for a field that is
\* not title, author or abstract, and then no scores have been computed and
\* there are no results.
C14_InvalidFieldRaises ==
  outcome \in {"field_returned", "ValueError"} =>
    /\ outcome = "ValueError" <=> field \notin Fields
    /\ outcome = "ValueError" =>
         (field_scores = NoMatrix /\ final_scores = <<>> /\ results = <<>>)

\* search_field_specific was called with a field that is no search field and
\* a query that shares an n-gram with a field of a document
C14_Witness ==
  /\ outcome = "ValueError"
  /\ field \notin Fields
  /\ Overlapping(search_query) # {}

\* the doc_ids whose similarity with the query in field f is positive
PositiveIn(f) == {d \in DOMAIN doc_store : <<f, d>> \in Overlapping(search_query)}

\* C15: search_field_specific returns the documents whose similarity in the
\* field is positive, cut to the first top_k in non-increasing order of this
\* similarity, whatever matches or fails in the other two fields (the
\* similarity of the field itself has been computed without a failure).
C15_OnlyOwnFieldMatters ==
  (outcome = "field_returned" /\ field \notin transform_error) =>
    LET C == PositiveIn(field)
    IN /\ Len(results) = (IF top_k < Cardinality(C) THEN top_k ELSE Cardinality(C))
       /\ \A i \in 1..Len(results) :
            results[i].doc_id \in C /\ results[i].relevancyScore > 0
       /\ \A i \in 1..(Len(results) - 1) :
            results[i].relevancyScore >= results[i + 1].relevancyScore

\* the fused score of document d in the last call, as a numerator
FusedScore(d) == WeightedScore(current_weights, field_scores, d)

\* C16: a bag-of-words query returns min(top_k, |C|) documents of
\* C = {d : fused score of d > 0}, each once and with its fused score, in
\* non-increasing order of score, and no document of C left out has a higher
\* score than a returned one.
C16_BagOfWordsTopK ==
  (outcome = "returned" /\ ~is_phrase_query) =>
    LET C == {d \in DOMAIN doc_store : FusedScore(d) > 0}
        returned == {results[i].doc_id : i \in 1..Len(results)}
    IN /\ Len(results) = (IF top_k < Cardinality(C) THEN top_k ELSE Cardinality(C))
       /\ Cardinality(returned) = Len(results)
       /\ returned \subseteq C
       /\ \A i \in 1..Len(results) : results[i].relevancyScore = FusedScore(results[i].doc_id)
       /\ \A i \in 1..(Len(results) - 1) :
            results[i].relevancyScore >= results[i + 1].relevancyScore
       /\ \A d \in C \ returned : \A i \in 1..Len(results) :
            FusedScore(d) <= results[i].relevancyScore

\* a bag-of-words query over documents of different positive fused scores was
\* cut to the best one, which is not the document of the lowest doc_id
C16_Witness ==
  /\ outcome = "returned" /\ ~is_phrase_query
  /\ top_k = 1 /\ Len(results) = 1
  /\ \E d \in DOMAIN doc_store :
       /\ d < results[1].doc_id
       /\ FusedScore(d) > 0
       /\ FusedScore(d) < results[1].relevancyScore

\* ------------------------------------------------- claims on the service
\* C17: with the index artifact missing the service keeps running and every
\* GET /search it answers is a 503.
C17_MissingIndexGives503 ==
  (index_file.artifact = "none" /\ process # "down") =>
    /\ process = "serving"
    /\ response \in {0, 503}

\* the row count of a matrix differs from the number of doc_store entries
RowCountMismatch == \E f \in Fields : Len(matrix[f]) # NumDocsOf(doc_store)

\* C18: an artifact with a matrix whose row count differs from the number of
\* doc_store entries is rejected by the loader: no SearchEngine is made from
\* it and no query is answered from it.
C18_LoaderValidatesArtifact ==
  (index_file.complete /\ RowCountMismatch) =>
    /\ "search_engine" \notin ml_models
    /\ field_weights = NoWeights
    /\ outcome = "none" /\ response \notin {200, 500}

\* ------------------------------------------------ claims on process_text
\* C19: processing the joined output of process_text gives the same token
\* sequence again.
C19_ProcessIdempotent ==
  outcome = "processed" => process_text(search_query) = phrase_tokens

\* ------------------------------------------- claims on concurrent calls
\* C20: under every interleaving of search and search_field calls the engine
\* keeps the index it loaded and its default weights, and each finished call
\* has returned what it returns when it runs alone.
C20_ReadOnlyIndexIsolatedCalls ==
  /\ field_weights = DefaultWeights
  /\ positional_index = PositionalOf(publications, Len(publications))
  /\ doc_store = [i \in 0..(Len(publications) - 1) |-> publications[i + 1]]
  /\ vectorizer = [f \in Fields |-> FitVocabulary(FieldCorpus(publications, f))]
  /\ matrix = [f \in Fields |-> FitMatrix(FieldCorpus(publications, f))]
  /\ \A t \in Threads :
       /\ calls[t].pc = "done" => calls[t].result = calls[t].alone
       /\ calls[t].op = "search" =>
            calls[t].weights =
              _detect_query_intent(DefaultWeights, SearchQueryOf(calls[t].query))

\* two searches have finished with results, one with adapted weights and one
\* with the default weights
C20_Witness ==
  /\ \A t \in Threads : calls[t].pc = "done"
  /\ \E t, u \in Threads :
       /\ calls[t].op = "search" /\ calls[t].weights # DefaultWeights
       /\ calls[u].op = "search" /\ calls[u].weights = DefaultWeights
       /\ calls[t].result # <<>> /\ calls[u].result # <<>>
       /\ calls[u].result[1].relevancyScore > 0

\* ------------------------------------------------ claims on the commands
\* the field and the trimmed remainder of a line with one of the prefixes
C21_Prefixed(line) ==
  Len(line) >= 2 /\ <<line[1], line[2]>> \in {<<"title", COLON>>, <<"author", COLON>>,
                                              <<"abstract", COLON>>}

C21_Exits(line) == LowerText(line) \in {<<"exit">>, <<"quit">>}

C21_Trimmed(t) ==
  LET keep == {i \in 1..Len(t) : t[i] # SPACE}
  IN IF keep = {} THEN <<>>
     ELSE SubSeq(t, CHOOSE i \in keep : \A j \in keep : i <= j,
                    CHOOSE i \in keep : \A j \in keep : i >= j)

\* C21: every line read is handled: a line equal to exit or quit in any case
\* ends the loop and is the last line read; a line with the prefix title:,
\* author: or abstract: invokes search_field_specific with that field and the
\* trimmed remainder; every other line invokes search with the line; the
\* loop has ended only by such an exit line
C21_ReplDispatchesEveryLine ==
  /\ \A i \in 1..Len(repl_log) :
       LET e == repl_log[i]
       IN IF C21_Exits(e.line)
            THEN e.op = "break" /\ i = Len(repl_log) /\ repl = "ended"
          ELSE IF C21_Prefixed(e.line)
            THEN /\ e.op = "search_field_specific"
                 /\ e.field = e.line[1]
                 /\ e.arg = C21_Trimmed(SubSeq(e.line, 3, Len(e.line)))
                 /\ (i = Len(repl_log) => query = e.arg /\ field = e.field
                                           /\ outcome = "field_returned")
          ELSE /\ e.op = "search"
               /\ e.arg = e.line
               /\ (i = Len(repl_log) => query = e.line /\ field = NoField
                                         /\ outcome = "returned")
  /\ (repl = "ended" => Len(repl_log) > 0 /\ C21_Exits(repl_log[Len(repl_log)].line))

\* C21 witness: a prefixed line whose term was trimmed, then a plain line,
\* then Quit, which ended the loop
C21_Witness ==
  /\ repl = "ended"
  /\ Len(repl_log) = 3
  /\ repl_log[1].op = "search_field_specific"
  /\ repl_log[1].arg # SubSeq(repl_log[1].line, 3, Len(repl_log[1].line))
  /\ repl_log[2].op = "search"
  /\ repl_log[3].line = <<"Quit">>

C22_Taken(u) == {i \in 1..pub_index : publications_to_scrape[i].url = u}

C23_DelayBetweenNavigations == last_gap # NoGap => last_gap >= effective_delay_min

\* the entries of publications_to_scrape whose URL robots.txt allows
C25_Allowed == SelectSeq(publications_to_scrape, LAMBDA p : can_fetch(rp, p.url))

\* C25, per publication: every record written carries the five keys, and
\* every discovered publication URL that robots.txt allows is the URL of
\* exactly one record written
C25_SavedOncePerPublication ==
  crawl_pc = "saved" =>
    /\ \A i \in 1..Len(corpus_file.records) :
         DOMAIN corpus_file.records[i] = {"title", "url", "date", "authors", "abstract"}
    /\ \A i \in 1..Len(C25_Allowed) :
         Cardinality({j \in 1..Len(corpus_file.records) :
                        corpus_file.records[j].url = C25_Allowed[i].url}) = 1

\* C25: every record collected or written carries title, url, date, authors
\* and abstract; the records written are, one for one and in discovery order,
\* the discovered list items whose URL robots.txt allows; an item whose
\* attempts all failed has authors = [] and abstract = ''; build_index finds
\* the keys it reads in every record written
C25_SavedRecordsComplete ==
  /\ \A i \in 1..Len(final_publications) :
       DOMAIN final_publications[i] = {"title", "url", "date", "authors", "abstract"}
  /\ \A i \in given_up :
       publications_to_scrape[i].authors = <<>> /\ publications_to_scrape[i].abstract = <<>>
  /\ crawl_pc = "saved" =>
       /\ corpus_file.exists
       /\ corpus_file.records = C25_Allowed
       /\ \A i \in 1..Len(corpus_file.records) : HasKeys(corpus_file.records[i])

\* C25 witness: a crawl wrote two records, one with the details of its page
\* and one whose attempts all failed
C25_Witness ==
  /\ crawl_pc = "saved"
  /\ Len(corpus_file.records) = 2
  /\ given_up # {}
  /\ \E i \in 1..Len(corpus_file.records) : corpus_file.records[i].authors # <<>>

\* no listing URL is put on the queue or taken off it more than once, and the
\* queue holds visited URLs only
C26_EnqueuedOnce ==
  /\ \A u \in PageUrls : enqueued[u] <= 1 /\ fetched[u] <= enqueued[u]
  /\ \A u \in PageUrls : (enqueued[u] = 1) <=> (u \in visited_urls)
  /\ \A i \in 1..Len(queue) : queue[i] \in visited_urls /\ fetched[queue[i]] = 0

\* C26: no listing URL is enqueued or fetched twice, and a discovery loop
\* that has begun ends, whatever next links the pages carry
C26_DiscoveryTerminates ==
  /\ []C26_EnqueuedOnce
  /\ (crawl_pc = "discover") ~> (crawl_pc = "details")

\* C26 witness: discovery ended after every listing URL was fetched and a
\* next link led back to a visited page
C26_Witness ==
  /\ crawl_pc = "details"
  /\ visited_urls = PageUrls
  /\ \A u \in PageUrls : fetched[u] = 1
  /\ back_links # {}

\* C24: a serving API holds the three models; no request was answered by a
\* process that did not finish its startup; neither /search nor /classify
\* answers 503; a stopped API holds no model
C24_ServingHoldsAllModels ==
  /\ process = "serving" => ml_models = {"search_engine", "classifier", "classifier_labels"}
  /\ process \in {"down", "exited", "failed"} => response = 0 /\ endpoint = "none"
  /\ response # 503
  /\ process = "stopped" => ml_models = {}

\* C24 witness: the API started, answered a classify request and was stopped
C24_Witness ==
  /\ process = "stopped"
  /\ endpoint = "classify"
  /\ response = 200
  /\ ml_models = {}
====
